---- MODULE Spec2Model ----
(***************************************************************************)
(* A model of Eckhart_algo.py: the flat-buffer layout helpers, the         *)
(* centring helper coincide_COM, and the two entry points Eckart_Frame_v1  *)
(* and Eckart_Frame_v2, each modelled statement by statement up to the     *)
(* point where the call ends.                                              *)
(*                                                                         *)
(* Arrays are sequences: the Python index i is the TLA+ index i + 1.       *)
(* Matrices are sequences of rows.  Arrays live in the record mem, one     *)
(* field per Python name, so that an in-place write (x[:] = ..., x[:, j] = *)
(* ...) is an update of the field the name is bound to, and a write        *)
(* through a view of a caller's array would show in the caller's field.    *)
(***************************************************************************)
EXTENDS Integers, Sequences, FiniteSets, TLC

VARIABLES
    pc,              \* position of the running call ("idle" before any call)
    fn,              \* the function that was called
    N, D, n,         \* the call's atom, dimension and bead counts
    mem,             \* the arrays the call can reach, by Python name
    s,               \* the loop variables <<s1, s2, s3>> of the sign search
    epsi3, eta3,     \* the cross products of lines 167-170
    lap,             \* the best score retained so far (line 159)
    s1s2s3_optimal,  \* the retained sign triple (line 158)
    k,               \* the bead loop variable
    written,         \* how many times each index of Zq_new was assigned
    exc              \* the exception that ended the call, "" if none

vars == <<pc, fn, N, D, n, mem, s, epsi3, eta3, lap, s1s2s3_optimal, k,
          written, exc>>

----------------------------------------------------------------------------
(* Bounds of the model.                                                    *)

MaxAtoms == 6
MaxDim == 3
MaxBeads == 4
MaxCoord == 2
MaxMass == 2
MaxBase == 1
MaxStride == 2
MaxCom == 1

(* The cross product and reshape(3, 1) of lines 167-172 fix D = 3 in v2.   *)
CrossDim == 3

----------------------------------------------------------------------------
(* Arithmetic on sequences.                                                *)

Min(a, b) == IF a < b THEN a ELSE b

RECURSIVE SumTo(_, _)
SumTo(f, i) == IF i = 0 THEN 0 ELSE f[i] + SumTo(f, i - 1)

Sum(f) == SumTo(f, Len(f))

Zeros(len) == [i \in 1..len |-> 0]

ZeroMatrix(r, c) == [i \in 1..r |-> [j \in 1..c |-> 0]]

Identity(d) == [i \in 1..d |-> [j \in 1..d |-> IF i = j THEN 1 ELSE 0]]

(* a[start:stop:step] for start >= 0 and step > 0: the stop is clamped to  *)
(* the length, as Python slicing does.                                     *)
SliceIndices(len, start, stop, step) ==
    LET hi == Min(stop, len)
        cnt == IF start >= hi THEN 0 ELSE (hi - start + step - 1) \div step
    IN  [i \in 1..cnt |-> start + (i - 1) * step]

PySlice(a, start, stop, step) ==
    LET idx == SliceIndices(Len(a), start, stop, step)
    IN  [i \in 1..Len(idx) |-> a[idx[i] + 1]]

Dot(u, v) == Sum([i \in 1..Len(u) |-> u[i] * v[i]])

Transpose(M) == [i \in 1..Len(M[1]) |-> [j \in 1..Len(M) |-> M[j][i]]]

MatMul(P, Q) ==
    [i \in 1..Len(P) |-> [j \in 1..Len(Q[1]) |->
        Sum([e \in 1..Len(Q) |-> P[i][e] * Q[e][j]])]]

Column(M, j) == [i \in 1..Len(M) |-> M[i][j]]

SetColumn(M, j, col) ==
    [i \in 1..Len(M) |-> [e \in 1..Len(M[i]) |->
        IF e = j THEN col[i] ELSE M[i][e]]]

Scale(c, v) == [i \in 1..Len(v) |-> c * v[i]]

Cross(u, v) == << u[2] * v[3] - u[3] * v[2],
                  u[3] * v[1] - u[1] * v[3],
                  u[1] * v[2] - u[2] * v[1] >>

IsDiagonal(M) ==
    \A i \in 1..Len(M) : \A j \in 1..Len(M) : i # j => M[i][j] = 0

----------------------------------------------------------------------------
(* The layout helpers (lines 42-66).                                       *)

(* A bead slice taken as a contiguous block, Zq[k*N*D:(k+1)*N*D].          *)
bead_coordinates_contiguous(NN, DD, nn, Zq, kk) ==
    PySlice(Zq, kk * NN * DD, (kk + 1) * NN * DD, 1)

(* Zq[k:N*D*n+k:n]                                                          *)
bead_coordinates(NN, DD, nn, Zq, kk) ==
    PySlice(Zq, kk, NN * DD * nn + kk, nn)

(* q[j:N*D+j:D]                                                             *)
dimension_coordinates(NN, DD, q, j) ==
    PySlice(q, j, NN * DD + j, DD)

(* np.array([Zq[j*D:j*D+D] - COM for j in range(len(Zq)//D)]).flatten():   *)
(* block j of D consecutive entries minus COM, entry by entry.  A last     *)
(* block shorter than D cannot occur, len(Zq)//D blocks all being full.    *)
coincide_COM(NN, DD, nn, COM, Zq) ==
    LET blocks == Len(Zq) \div DD
    IN  [i \in 1..(blocks * DD) |->
            LET j == (i - 1) \div DD
                e == (i - 1) % DD
            IN  PySlice(Zq, j * DD, j * DD + DD, 1)[e + 1] - COM[e + 1]]

(* target[start:stop:step] = values: numpy requires as many values as the  *)
(* slice has places (the values here are never of length 1 when the slice  *)
(* is longer).                                                             *)
SliceAssignable(target, start, stop, step, values) ==
    Len(SliceIndices(Len(target), start, stop, step)) = Len(values)

SetSlice(target, start, stop, step, values) ==
    LET idx == SliceIndices(Len(target), start, stop, step)
    IN  [i \in 1..Len(target) |->
            IF \E e \in 1..Len(idx) : idx[e] + 1 = i
            THEN values[CHOOSE e \in 1..Len(idx) : idx[e] + 1 = i]
            ELSE target[i]]

(* The indices a slice assignment writes, as counts added to a tally.      *)
CountSlice(tally, start, stop, step) ==
    LET idx == SliceIndices(Len(tally), start, stop, step)
    IN  [i \in 1..Len(tally) |->
            tally[i] + Cardinality({e \in 1..Len(idx) : idx[e] + 1 = i})]

----------------------------------------------------------------------------
(* The linear algebra of Eckart_Frame_v2 (lines 26-32, 144-172).           *)

(* A[j1, j2] = np.dot(m[::D], dimension_coordinates(q, j1) *               *)
(*                            dimension_coordinates(q0, j2))               *)
Covariance(NN, DD, m, q, q0) ==
    [j1 \in 1..DD |-> [j2 \in 1..DD |->
        LET a == dimension_coordinates(NN, DD, q, j1 - 1)
            b == dimension_coordinates(NN, DD, q0, j2 - 1)
        IN  Dot(PySlice(m, 0, Len(m), DD),
                [i \in 1..Len(a) |-> a[i] * b[i]])]]

(* The same loop with the product formed in place in the view of q, as     *)
(* np.multiply(..., out=<view>) would: the view aliases the caller's q.    *)
BuildA_inplace(h) ==
    [h EXCEPT !.A = Covariance(N, D, h.m, h.q, h.q0),
              !.q = [i \in 1..Len(h.q) |->
                        LET atom == (i - 1) \div D
                        IN  h.q[i] * h.q0[atom * D + 1] * h.q0[atom * D + 2]
                                   * h.q0[atom * D + 3]]]

(* Lines 144-148: A is a fresh array; q, q0 and m are only read.           *)
BuildA(h) ==
    [h EXCEPT !.A = Covariance(N, D, h.m, h.q, h.q0)]

(* np.linalg.eig of a diagonal matrix: LAPACK returns the diagonal, in     *)
(* order, and the unit vectors as columns.  Only diagonal arguments occur  *)
(* for the inputs of this model.                                           *)
eig(M) ==
    [vals |-> [i \in 1..Len(M) |-> M[i][i]], vecs |-> Identity(Len(M))]

(* evals.argsort(): ascending; equal values keep their order (numpy sorts  *)
(* arrays this short by insertion).  Indices are 1-based here.             *)
argsort(v) ==
    LET rank(i) == Cardinality({j \in 1..Len(v) :
                        v[j] < v[i] \/ (v[j] = v[i] /\ j < i)}) + 1
    IN  [r \in 1..Len(v) |-> CHOOSE i \in 1..Len(v) : rank(i) = r]

(* evecs[:] = evecs.take(evals.argsort(), axis=1);                         *)
(* evals[:] = evals.take(evals.argsort()): both written in place, into the *)
(* arrays the names evals and evecs are bound to.                          *)
sortEigValsVecs(h, evals, evecs) ==
    LET order == argsort(h[evals])
        sortedVecs == [i \in 1..Len(h[evecs]) |->
                          [j \in 1..Len(order) |-> h[evecs][i][order[j]]]]
        sortedVals == [j \in 1..Len(order) |-> h[evals][order[j]]]
    IN  [h EXCEPT ![evecs] = sortedVecs, ![evals] = sortedVals]

(* Lines 164-166: the three columns of epsi are scaled in place; eta is    *)
(* not touched.                                                            *)
SignFlip(h, ss) ==
    LET e1 == SetColumn(h.epsi, 1, Scale(ss[1], Column(h.epsi, 1)))
        e2 == SetColumn(e1, 2, Scale(ss[2], Column(e1, 2)))
        e3 == SetColumn(e2, 3, Scale(ss[3], Column(e2, 3)))
    IN  [h EXCEPT !.epsi = e3]

(* numpy's rule for target[...] = value: leading dimensions of size 1 of   *)
(* the value are dropped while it has more dimensions than the target;     *)
(* then it must not have more dimensions, and each dimension, aligned from *)
(* the right, must be 1 or the target's.                                   *)
RECURSIVE StripLeadingOnes(_, _)
StripLeadingOnes(shape, ndim) ==
    IF Len(shape) > ndim /\ shape[1] = 1
    THEN StripLeadingOnes(Tail(shape), ndim)
    ELSE shape

CanAssign(targetShape, valueShape) ==
    LET v == StripLeadingOnes(valueShape, Len(targetShape))
        off == Len(targetShape) - Len(v)
    IN  /\ Len(v) <= Len(targetShape)
        /\ \A i \in 1..Len(v) : v[i] = 1 \/ v[i] = targetShape[i + off]

(* 1e10, the score the search starts from (line 159), as mant * 10^exp10.  *)
lap_start == [mant |-> 1, exp10 |-> 10]

----------------------------------------------------------------------------
(* The arguments the calls are given.                                      *)

(* A reference structure with its atoms on the coordinate axes, in pairs   *)
(* at +c and -c on the same axis: atoms 1, 2 on x, atoms 3, 4 on y, ...    *)
AxisOf(i) == (((i - 1) \div 2) % CrossDim) + 1

RefConfig(NN, mag) ==
    [e \in 1..(NN * CrossDim) |->
        LET i == (e - 1) \div CrossDim + 1
            d == ((e - 1) % CrossDim) + 1
        IN  IF d = AxisOf(i)
            THEN (IF i % 2 = 1 THEN 1 ELSE -1) * mag[d]
            ELSE 0]

(* One mass per atom, repeated for each dimension; the two atoms of a pair *)
(* have the same mass.                                                     *)
Masses(NN, mu) ==
    [e \in 1..(NN * CrossDim) |-> mu + ((e - 1) \div CrossDim) \div 2]

(* The 48 matrices with one entry +1 or -1 in each row and column: the     *)
(* rotations by multiples of 90 degrees and the reflections.               *)
SignedPerms ==
    { [i \in 1..CrossDim |-> [j \in 1..CrossDim |->
          IF j = p[i] THEN sg[i] ELSE 0]] :
      p \in { f \in [1..CrossDim -> 1..CrossDim] :
                 \A a, b \in 1..CrossDim : a # b => f[a] # f[b] },
      sg \in [1..CrossDim -> {-1, 1}] }

Det(M) == Dot(M[1], Cross(M[2], M[3]))

(* R applied to every atom's 3-vector.                                     *)
ApplyToAtoms(R, q) ==
    [e \in 1..Len(q) |->
        LET i == (e - 1) \div CrossDim
            d == ((e - 1) % CrossDim) + 1
        IN  Sum([c \in 1..CrossDim |-> R[d][c] * q[i * CrossDim + c]])]

(* A ring polymer around q in the layout atom*D*n + dim*n + bead: bead b   *)
(* is q displaced by b.                                                    *)
BeadsAround(q, nn) ==
    [e \in 1..(Len(q) * nn) |-> q[(e - 1) \div nn + 1] + ((e - 1) % nn)]

(* A buffer whose entries are all different.                               *)
Ramp(len, base, stride) == [i \in 1..len |-> base + stride * (i - 1)]

----------------------------------------------------------------------------
Init ==
    /\ pc = "idle"
    /\ fn = "none"
    /\ N = 0 /\ D = 0 /\ n = 0
    /\ mem = [none |-> <<>>]
    /\ s = <<>>
    /\ epsi3 = <<>> /\ eta3 = <<>>
    /\ lap = <<>>
    /\ s1s2s3_optimal = <<>>
    /\ k = 0
    /\ written = <<>>
    /\ exc = ""

----------------------------------------------------------------------------
(* Eckart_Frame_v1 (lines 71-128).                                         *)

V1_Call ==
    /\ pc = "idle"
    /\ \E NN \in 1..MaxAtoms, nn \in 1..MaxBeads, mu \in 1..MaxMass,
          mag \in [1..CrossDim -> 1..MaxCoord], R \in SignedPerms :
          /\ N' = NN /\ D' = CrossDim /\ n' = nn
          /\ mem' = [m  |-> Masses(NN, mu),
                     Zq |-> BeadsAround(ApplyToAtoms(R, RefConfig(NN, mag)), nn),
                     q0 |-> RefConfig(NN, mag),
                     X  |-> <<>>]
    /\ fn' = "v1"
    /\ pc' = "v1_allocate"
    /\ UNCHANGED <<s, epsi3, eta3, lap, s1s2s3_optimal, k, written, exc>>

(* Lines 82-84: X is allocated; then eight names are unpacked from a tuple *)
(* of seven arrays, which raises ValueError before any name is bound.      *)
UnpackTargets == <<"AT", "Ainv", "SS", "sqrtD", "P", "PT", "T", "COM">>

UnpackValues == [i \in 1..7 |-> ZeroMatrix(D, D)]

V1_Allocate ==
    /\ pc = "v1_allocate"
    /\ Len(UnpackTargets) # Len(UnpackValues)
    /\ mem' = [mem EXCEPT !.X = ZeroMatrix(N, D)]
    /\ exc' = "ValueError"
    /\ pc' = "raised"
    /\ UNCHANGED <<fn, N, D, n, s, epsi3, eta3, lap, s1s2s3_optimal, k,
                   written>>

----------------------------------------------------------------------------
(* Eckart_Frame_v2 (lines 136-190).                                        *)

(* The call, and line 142.                                                 *)
V2_Call ==
    /\ pc = "idle"
    /\ \E NN \in 1..MaxAtoms, mu \in 1..MaxMass,
          mag \in [1..CrossDim -> 1..MaxCoord], R \in SignedPerms :
          /\ N' = NN /\ D' = CrossDim
          /\ mem' = [q0 |-> RefConfig(NN, mag),
                     q  |-> ApplyToAtoms(R, RefConfig(NN, mag)),
                     m  |-> Masses(NN, mu),
                     T  |-> ZeroMatrix(CrossDim, CrossDim),
                     A  |-> <<>>, A1 |-> <<>>, A2 |-> <<>>,
                     a1 |-> <<>>, epsi |-> <<>>, a2 |-> <<>>, eta |-> <<>>,
                     Tq_optimal |-> <<>>]
    /\ fn' = "v2"
    /\ pc' = "v2_covariance"
    /\ UNCHANGED <<n, s, epsi3, eta3, lap, s1s2s3_optimal, k, written, exc>>

(* Lines 144-148.                                                          *)
V2_Covariance ==
    /\ pc = "v2_covariance"
    /\ mem' = BuildA(mem)
    /\ pc' = "v2_eigen"
    /\ UNCHANGED <<fn, N, D, n, s, epsi3, eta3, lap, s1s2s3_optimal, k,
                   written, exc>>

(* Lines 150-155.                                                          *)
Eigen(h) ==
    LET A2 == MatMul(Transpose(h.A), h.A)
        A1 == MatMul(h.A, Transpose(h.A))
        h1 == [h EXCEPT !.A2 = A2, !.A1 = A1,
                        !.a1 = eig(A1).vals, !.epsi = eig(A1).vecs,
                        !.a2 = eig(A2).vals, !.eta = eig(A2).vecs]
    IN  sortEigValsVecs(sortEigValsVecs(h1, "a1", "epsi"), "a2", "eta")

V2_Eigen ==
    /\ pc = "v2_eigen"
    /\ IsDiagonal(MatMul(mem.A, Transpose(mem.A)))
    /\ IsDiagonal(MatMul(Transpose(mem.A), mem.A))
    /\ mem' = Eigen(mem)
    /\ pc' = "v2_search"
    /\ UNCHANGED <<fn, N, D, n, s, epsi3, eta3, lap, s1s2s3_optimal, k,
                   written, exc>>

(* Lines 157-159.                                                          *)
L == <<-1, 1>>

V2_SearchInit ==
    /\ pc = "v2_search"
    /\ s1s2s3_optimal' = <<0, 0, 0>>
    /\ mem' = [mem EXCEPT !.Tq_optimal = Zeros(N * D)]
    /\ lap' = lap_start
    /\ pc' = "v2_signs"
    /\ UNCHANGED <<fn, N, D, n, s, epsi3, eta3, k, written, exc>>

(* Lines 161-166: the three loops are entered, each at the first element   *)
(* of L, and the columns of epsi are scaled.                               *)
V2_SignFlip ==
    /\ pc = "v2_signs"
    /\ s' = <<L[1], L[1], L[1]>>
    /\ mem' = SignFlip(mem, s')
    /\ pc' = "v2_cross"
    /\ UNCHANGED <<fn, N, D, n, epsi3, eta3, lap, s1s2s3_optimal, k, written,
                   exc>>

(* Lines 167-170.                                                          *)
V2_Cross ==
    /\ pc = "v2_cross"
    /\ epsi3' = Cross(Column(mem.epsi, 1), Column(mem.epsi, 2))
    /\ eta3' = Cross(Column(mem.eta, 1), Column(mem.eta, 2))
    /\ pc' = "v2_third"
    /\ UNCHANGED <<fn, N, D, n, mem, s, lap, s1s2s3_optimal, k, written, exc>>

(* Line 171: epsi[:, 2] = np.asarray(epsi3).reshape(3, 1).  epsi is an     *)
(* ndarray (np.linalg.eig of an ndarray), so the target epsi[:, 2] has     *)
(* shape (3,); a value of shape (3, 1) cannot be assigned to it and the    *)
(* statement raises ValueError.  Nothing after line 171 is executed.       *)
V2_AssignThird ==
    /\ pc = "v2_third"
    /\ ~CanAssign(<<Len(mem.epsi)>>, <<CrossDim, 1>>)
    /\ exc' = "ValueError"
    /\ pc' = "raised"
    /\ UNCHANGED <<fn, N, D, n, mem, s, epsi3, eta3, lap, s1s2s3_optimal, k,
                   written>>

----------------------------------------------------------------------------
(* coincide_COM called on its own (lines 64-66).                           *)

Coincide_Call ==
    /\ pc = "idle"
    /\ \E NN \in 1..MaxAtoms, DD \in 1..MaxDim, nn \in 1..MaxBeads,
          base \in 0..MaxBase, stride \in 1..MaxStride :
          /\ N' = NN /\ D' = DD /\ n' = nn
          /\ \E COM \in [1..DD -> 0..MaxCom] :
                mem' = [COM |-> COM,
                        Zq  |-> Ramp(NN * DD * nn, base, stride),
                        out |-> <<>>]
    /\ fn' = "coincide_COM"
    /\ pc' = "coincide"
    /\ UNCHANGED <<s, epsi3, eta3, lap, s1s2s3_optimal, k, written, exc>>

Coincide_Return ==
    /\ pc = "coincide"
    /\ mem' = [mem EXCEPT !.out = coincide_COM(N, D, n, mem.COM, mem.Zq)]
    /\ pc' = "returned"
    /\ UNCHANGED <<fn, N, D, n, s, epsi3, eta3, lap, s1s2s3_optimal, k,
                   written, exc>>

----------------------------------------------------------------------------
(* The bead loop of lines 91-96 and 126 on its own: every bead slice is    *)
(* taken with bead_coordinates and written back, unrotated, with the slice *)
(* assignment of line 126.                                                 *)

RoundTrip_Call ==
    /\ pc = "idle"
    /\ \E NN \in 1..MaxAtoms, DD \in 1..MaxDim, nn \in 1..MaxBeads,
          base \in 0..MaxBase, stride \in 1..MaxStride :
          /\ N' = NN /\ D' = DD /\ n' = nn
          /\ mem' = [Zq     |-> Ramp(NN * DD * nn, base, stride),
                     Zq_new |-> Zeros(NN * DD * nn),
                     q_k    |-> <<>>]
          /\ written' = Zeros(NN * DD * nn)
    /\ fn' = "round_trip"
    /\ k' = 0
    /\ pc' = "rt_slice"
    /\ UNCHANGED <<s, epsi3, eta3, lap, s1s2s3_optimal, exc>>

(* Line 96.                                                                *)
RoundTrip_Slice ==
    /\ pc = "rt_slice"
    /\ mem' = [mem EXCEPT !.q_k = bead_coordinates(N, D, n, mem.Zq, k)]
    /\ pc' = "rt_scatter"
    /\ UNCHANGED <<fn, N, D, n, s, epsi3, eta3, lap, s1s2s3_optimal, k,
                   written, exc>>

(* Line 126, and the loop head of line 93.                                 *)
RoundTrip_Scatter ==
    /\ pc = "rt_scatter"
    /\ SliceAssignable(mem.Zq_new, k, N * D * n + k, n, mem.q_k)
    /\ mem' = [mem EXCEPT
                 !.Zq_new = SetSlice(mem.Zq_new, k, N * D * n + k, n, mem.q_k)]
    /\ written' = CountSlice(written, k, N * D * n + k, n)
    /\ k' = k + 1
    /\ pc' = IF k + 1 < n THEN "rt_slice" ELSE "returned"
    /\ UNCHANGED <<fn, N, D, n, s, epsi3, eta3, lap, s1s2s3_optimal, exc>>

----------------------------------------------------------------------------
Next ==
    \/ V1_Call
    \/ V1_Allocate
    \/ V2_Call
    \/ V2_Covariance
    \/ V2_Eigen
    \/ V2_SearchInit
    \/ V2_SignFlip
    \/ V2_Cross
    \/ V2_AssignThird
    \/ Coincide_Call
    \/ Coincide_Return
    \/ RoundTrip_Call
    \/ RoundTrip_Slice
    \/ RoundTrip_Scatter

Spec == Init /\ [][Next]_vars

----------------------------------------------------------------------------
(* What the claims are stated with.                                        *)

Ended == pc \in {"returned", "raised"}

(* The 8 sign triples in the order of the loops of lines 161-163: s1       *)
(* outermost, s3 innermost, each -1 then +1.                               *)
Enumeration ==
    [i \in 1..8 |-> << L[((i - 1) \div 4) + 1],
                       L[(((i - 1) \div 2) % 2) + 1],
                       L[((i - 1) % 2) + 1] >>]

(* The caller's arrays of the running call.                                *)
CallerArrays ==
    IF fn = "v1" THEN <<mem.Zq, mem.m, mem.q0>>
    ELSE IF fn = "v2" THEN <<mem.q, mem.m, mem.q0>>
    ELSE <<>>

(* The mass-weighted sum of the positions is zero in every dimension.      *)
Centred(q, m) ==
    \A d \in 1..CrossDim :
        Dot(PySlice(m, 0, Len(m), CrossDim),
            dimension_coordinates(Len(q) \div CrossDim, CrossDim, q, d - 1)) = 0

SqDist(u, v) == Sum([i \in 1..Len(u) |-> (u[i] - v[i]) * (u[i] - v[i])])

(* The square of the number f = mant * 10^exp10 is x, for x an integer of  *)
(* the model (below 10^10).                                                *)
SquareIs(f, x) ==
    IF f.mant = 0 THEN x = 0
    ELSE IF f.exp10 >= 5 THEN FALSE
    ELSE f.mant * f.mant * 10 ^ (2 * f.exp10) = x

----------------------------------------------------------------------------
(* C1: every call of Eckart_Frame_v2 with D = 3 and arrays of length N*D   *)
(* completes without raising and returns a configuration of length N*D     *)
(* with a sign triple whose three components are each -1 or +1.            *)
C1_V2ReturnsWinningTriple ==
    (fn = "v2" /\ Ended) =>
        /\ exc = ""
        /\ pc = "returned"
        /\ Len(mem.Tq_optimal) = N * D
        /\ \A i \in 1..3 : s1s2s3_optimal[i] \in {-1, 1}

(* C2: every call of Eckart_Frame_v1 with arrays of the stated lengths     *)
(* completes without raising and returns a buffer of length N*D*n, every   *)
(* position of it written by exactly one bead iteration.                   *)
C2_V1ReturnsFullBuffer ==
    (fn = "v1" /\ Ended) =>
        /\ exc = ""
        /\ pc = "returned"
        /\ Len(mem.Zq_new) = N * D * n
        /\ \A i \in 1..(N * D * n) : written[i] = 1

(* C3: for a centred configuration q that is q0 with one proper rotation   *)
(* applied to every atom, Eckart_Frame_v2 returns a configuration equal to *)
(* q0 (residual 0).                                                        *)
C3_V2UndoesRotation ==
    ( /\ fn = "v2" /\ Ended
      /\ Centred(mem.q, mem.m)
      /\ \E R \in SignedPerms : Det(R) = 1 /\ mem.q = ApplyToAtoms(R, mem.q0) )
    =>  /\ pc = "returned"
        /\ mem.Tq_optimal = mem.q0

(* C4: coincide_COM returns a buffer of the length of Zq in which the      *)
(* element of atom, dim, bead, at atom*D*n + dim*n + bead, is the element  *)
(* of Zq there minus COM[dim].                                             *)
C4_CoincideSubtractsOwnDimension ==
    (fn = "coincide_COM" /\ pc = "returned") =>
        /\ Len(mem.out) = Len(mem.Zq)
        /\ \A atom \in 0..(N - 1), dim \in 0..(D - 1), bead \in 0..(n - 1) :
              mem.out[atom * D * n + dim * n + bead + 1]
                  = mem.Zq[atom * D * n + dim * n + bead + 1] - mem.COM[dim + 1]

(* C5: no step of Eckart_Frame_v1 or Eckart_Frame_v2 changes an array the  *)
(* caller passed in (bead buffer or configuration, masses, reference),     *)
(* whether the call returns or raises.                                     *)
C5_CallerArraysNotWritten ==
    [][ (fn \in {"v1", "v2"}) => (CallerArrays' = CallerArrays) ]_vars

(* A call of v2 that has ended after writing in place to its own epsi.     *)
C5_Witness ==
    /\ fn = "v2" /\ Ended
    /\ mem.epsi # Eigen(mem).epsi
    /\ mem.q # Zeros(N * D)

(* C6: the bead slice k has length N*D and its element atom*D + dim is     *)
(* Zq[atom*D*n + dim*n + k]; writing every slice back at k, k+n, k+2n, ... *)
(* of a fresh buffer reproduces Zq, every index written exactly once.      *)
C6_BeadSliceRoundTrip ==
    /\ (fn = "round_trip" /\ pc = "rt_scatter") =>
          /\ Len(mem.q_k) = N * D
          /\ \A atom \in 0..(N - 1), dim \in 0..(D - 1) :
                mem.q_k[atom * D + dim + 1]
                    = mem.Zq[atom * D * n + dim * n + k + 1]
    /\ (fn = "round_trip" /\ pc = "returned") =>
          /\ mem.Zq_new = mem.Zq
          /\ \A i \in 1..(N * D * n) : written[i] = 1

(* The round trip of 2 atoms, 3 dimensions and 4 beads has ended.          *)
C6_Witness ==
    /\ fn = "round_trip" /\ pc = "returned"
    /\ N = 2 /\ D = 3 /\ n = 4
    /\ k = n

(* C7: when the sign search is over, the retained score, configuration and *)
(* triple are those of one enumerated candidate, the earliest of minimal   *)
(* score: the triple is one of the 8 enumerated and the score is no longer *)
(* the starting value.                                                     *)
C7_RetainedIsEarliestMinimum ==
    (fn = "v2" /\ Ended) =>
        /\ \E i \in 1..8 : s1s2s3_optimal = Enumeration[i]
        /\ lap # lap_start

(* C8: the retained score is the Euclidean norm of the retained (returned) *)
(* configuration minus q0.                                                 *)
C8_ScoreIsNormOfReturned ==
    (fn = "v2" /\ Ended) =>
        SquareIs(lap, SqDist(mem.Tq_optimal, mem.q0))

(* C9: the bases a candidate (s1, s2, s3) is built from are the sorted     *)
(* eigenbases with the first axis multiplied by s1 and the second by s2,   *)
(* in epsi and in eta.                                                     *)
C9_BothBasesSigned ==
    (fn = "v2" /\ pc \in {"v2_third", "raised"}) =>
        /\ Column(mem.epsi, 1) = Scale(s[1], Column(Eigen(mem).epsi, 1))
        /\ Column(mem.epsi, 2) = Scale(s[2], Column(Eigen(mem).epsi, 2))
        /\ Column(mem.eta, 1) = Scale(s[1], Column(Eigen(mem).eta, 1))
        /\ Column(mem.eta, 2) = Scale(s[2], Column(Eigen(mem).eta, 2))

(* C10: s3 has no effect on a candidate: the search runs through the       *)
(* triples with s3 = -1 and with s3 = +1 up to the last one, and the third *)
(* axis of each basis a candidate is left with is the cross product of its *)
(* signed first two axes, whatever s3 is.                                  *)
C10_ThirdAxisIsCrossProduct ==
    (fn = "v2" /\ Ended) =>
        /\ s = Enumeration[8]
        /\ Column(mem.epsi, 3) = epsi3
        /\ Column(mem.eta, 3) = eta3

====
